---- MODULE Spec2Model ----
(***************************************************************************)
(* Model of app.py, the diabetes dashboard script.                         *)
(*                                                                         *)
(* The script is a Streamlit page: the framework executes it from its     *)
(* first line to its last once when the session opens and once more after *)
(* every widget change.  Nothing of a run survives into the next one but  *)
(* the widget values the framework keeps for the session.  One run is     *)
(* modelled as the steps Load, Sidebar, Filter, Tab1 .. Tab5; a step that *)
(* raises ends the run in pc = "error" with the charts rendered so far    *)
(* still on the page.                                                      *)
(*                                                                         *)
(* A data frame is [columns, index, data]: the column names, the row      *)
(* labels and the rows, a row being a function from column names to       *)
(* values.  Numeric columns hold integers (HbA1c_level and bmi in tenths).*)
(* A mean is the exact fraction [num, den]; a correlation coefficient r   *)
(* is kept as its sign and r^2 = num / den.  The data is clean: no cell   *)
(* is missing.                                                             *)
(***************************************************************************)
EXTENDS Integers, Sequences, FiniteSets, TLC

\* ------------------------------------------------------------------ bounds
\* rows in the csv file
MaxRows == 3
\* rows in a csv file that lacks a column
MaxShortRows == 1
\* executions of the script in one session
MaxReads == 2

\* ------------------------------------------------------------ the data file
FilterFields == <<"gender", "age_group", "smoking_history", "heart_disease", "hypertension">>

numeric_cols == <<"HbA1c_level", "blood_glucose_level", "bmi", "age">>

RequiredColumns ==
    {"gender", "age", "age_group", "smoking_history", "hypertension",
     "heart_disease", "bmi", "HbA1c_level", "blood_glucose_level", "diabetes"}

Row(g, ag, sm, hd, ht, d, hb, bg, bmi, age) ==
    [gender |-> g, age_group |-> ag, smoking_history |-> sm, heart_disease |-> hd,
     hypertension |-> ht, diabetes |-> d, HbA1c_level |-> hb,
     blood_glucose_level |-> bg, bmi |-> bmi, age |-> age]

\* the rows a csv file of the model is made of
RowPool ==
    { Row("Female", "65+",   "never",   1, 1, 1, 66, 200, 300, 70),
      Row("Male",   "65+",   "current", 0, 1, 0, 50, 100, 250, 66),
      Row("Female", "18-35", "never",   1, 0, 0, 57, 140, 220, 30),
      Row("Male",   "18-35", "never",   0, 0, 1, 61, 160, 270, 25) }

\* Python's order of the strings that occur as group keys
StringOrder ==
    <<"18-35", "65+", "Both", "Female", "Heart Disease Only", "Hypertension Only",
      "Male", "None", "current", "never">>

RowSeqs == UNION { [1..n -> RowPool] : n \in 0..MaxRows }

ShortRowSeqs == UNION { [1..n -> RowPool] : n \in 0..MaxShortRows }

Restrict(row, cols) == [c \in cols |-> row[c]]

\* diabetes_clean.csv as it lies on disk: absent, complete, or one column short
CsvFiles ==
    { [exists |-> FALSE, columns |-> RequiredColumns, rows |-> << >>] }
    \cup { [exists |-> TRUE, columns |-> RequiredColumns, rows |-> rs] : rs \in RowSeqs }
    \cup { [exists |-> TRUE, columns |-> RequiredColumns \ {c},
            rows |-> [i \in 1..Len(rs) |-> Restrict(rs[i], RequiredColumns \ {c})]] :
           rs \in ShortRowSeqs, c \in RequiredColumns }

VARIABLES
    file,         \* diabetes_clean.csv on disk
    reads,        \* how many times pd.read_csv has run in the session
    widgetSet,    \* the sidebar widgets that exist in the session
    widget,       \* field -> the value the session keeps for its widget
    pc,           \* the statement the running script is at
    df,           \* the loaded frame
    filters,      \* field -> gender_filter .. hypertension_filter
    filtered_df,  \* the filtered frame
    charts,       \* the figures handed to st.plotly_chart in this run
    errline       \* the line that raised, 0 if none did

vars == <<file, reads, widgetSet, widget, pc, df, filters, filtered_df, charts, errline>>

EmptyFrame == [columns |-> {}, index |-> << >>, data |-> << >>]

Fields == {FilterFields[i] : i \in 1..Len(FilterFields)}

NoSelection == [f \in Fields |-> {}]

\* ------------------------------------------------------------ pandas / numpy
\* pd.read_csv: default RangeIndex, one row per line
read_csv(f) ==
    [columns |-> f.columns, index |-> [i \in 1..Len(f.rows) |-> i - 1], data |-> f.rows]

Column(frame, c) == [i \in 1..Len(frame.data) |-> frame.data[i][c]]

Range(s) == {s[i] : i \in 1..Len(s)}

\* Series.unique(): the distinct values in order of first appearance
RECURSIVE unique(_)
unique(s) ==
    IF s = << >> THEN << >>
    ELSE LET front == unique(SubSeq(s, 1, Len(s) - 1))
             last == s[Len(s)]
         IN IF last \in Range(front) THEN front ELSE Append(front, last)

\* isin with "nothing selected" read as "no restriction"
isinOrAll(s, values) == [i \in 1..Len(s) |-> values = {} \/ s[i] \in values]

\* Series.isin(values): one boolean per row
isin(s, values) == [i \in 1..Len(s) |-> s[i] \in values]

\* mask & mask
MaskAnd(a, b) == [i \in 1..Len(a) |-> a[i] /\ b[i]]

\* the positions of the rows a boolean mask keeps, in order
RECURSIVE Kept(_)
Kept(mask) ==
    IF mask = << >> THEN << >>
    ELSE LET front == Kept(SubSeq(mask, 1, Len(mask) - 1))
         IN IF mask[Len(mask)] THEN Append(front, Len(mask)) ELSE front

\* frame[mask]: a new frame with the kept rows under their old labels
BoolIndex(frame, mask) ==
    LET k == Kept(mask)
    IN [columns |-> frame.columns,
        index |-> [j \in 1..Len(k) |-> frame.index[k[j]]],
        data |-> [j \in 1..Len(k) |-> frame.data[k[j]]]]

\* the row filter with | in place of &
RowFilterAny(frame, sel) ==
    BoolIndex(frame,
        [i \in 1..Len(frame.data) |->
            \E f \in {"gender", "age_group", "smoking_history", "heart_disease", "hypertension"} :
                frame.data[i][f] \in sel[f]])

RowFilter(frame, sel) ==
    BoolIndex(frame,
        MaskAnd(MaskAnd(MaskAnd(MaskAnd(
            isin(Column(frame, "gender"), sel["gender"]),
            isin(Column(frame, "age_group"), sel["age_group"])),
            isin(Column(frame, "smoking_history"), sel["smoking_history"])),
            isin(Column(frame, "heart_disease"), sel["heart_disease"])),
            isin(Column(frame, "hypertension"), sel["hypertension"])))

\* ---- groupby(keys)["diabetes"].mean().reset_index()
Rank(s) == CHOOSE i \in 1..Len(StringOrder) : StringOrder[i] = s

\* tuple comparison of two group keys of the same length
RECURSIVE KeyLessEq(_, _)
KeyLessEq(a, b) ==
    IF a = << >> THEN TRUE
    ELSE IF a[1] = b[1] THEN KeyLessEq(Tail(a), Tail(b))
    ELSE Rank(a[1]) < Rank(b[1])

\* the group keys in ascending order (groupby sorts its keys)
RECURSIVE SortKeys(_)
SortKeys(S) ==
    IF S = {} THEN << >>
    ELSE LET m == CHOOSE x \in S : \A y \in S : KeyLessEq(x, y)
         IN <<m>> \o SortKeys(S \ {m})

KeyOf(row, keys) == [j \in 1..Len(keys) |-> row[keys[j]]]

RECURSIVE Sum(_)
Sum(s) == IF s = << >> THEN 0 ELSE s[1] + Sum(Tail(s))

\* the mean of a non-empty series, as an exact fraction
Mean(s) == [num |-> Sum(s), den |-> Len(s)]

\* the positions of the rows of one group
Members(frame, keys, k) == {i \in 1..Len(frame.data) : KeyOf(frame.data[i], keys) = k}

RECURSIVE SeqOfSet(_)
SeqOfSet(S) ==
    IF S = {} THEN << >>
    ELSE LET m == CHOOSE x \in S : \A y \in S : x <= y
         IN <<m>> \o SeqOfSet(S \ {m})

GroupValues(frame, keys, k, col) ==
    LET pos == SeqOfSet(Members(frame, keys, k))
    IN [j \in 1..Len(pos) |-> frame.data[pos[j]][col]]

\* one output row: the key columns and the aggregated column
TableRow(keys, k, col, value) ==
    [c \in Range(keys) \cup {col} |->
        IF c = col THEN value ELSE k[CHOOSE j \in 1..Len(keys) : keys[j] = c]]

\* groups for every key of the loaded data, as for a categorical column
AllKeys(frame, keys) ==
    IF Range(keys) \subseteq df.columns
    THEN {KeyOf(df.data[i], keys) : i \in 1..Len(df.data)}
    ELSE {KeyOf(frame.data[i], keys) : i \in 1..Len(frame.data)}

\* only the keys that occur in the frame form a group
ObservedKeys(frame, keys) == {KeyOf(frame.data[i], keys) : i \in 1..Len(frame.data)}

GroupByMean(frame, keys, col) ==
    LET ks == SortKeys(ObservedKeys(frame, keys))
    IN [j \in 1..Len(ks) |->
            TableRow(keys, ks[j], col, Mean(GroupValues(frame, keys, ks[j], col)))]

\* ---- np.select(condlist, choicelist, default)
RECURSIVE FirstMatch(_, _, _, _)
FirstMatch(condlist, choicelist, default, i) ==
    IF condlist = << >> THEN default
    ELSE IF condlist[1][i] THEN choicelist[1]
    ELSE FirstMatch(Tail(condlist), Tail(choicelist), default, i)

\* np.select with the last true condition winning
RECURSIVE LastMatch(_, _, _, _)
LastMatch(condlist, choicelist, default, i) ==
    IF condlist = << >> THEN default
    ELSE IF condlist[Len(condlist)][i] THEN choicelist[Len(condlist)]
    ELSE LastMatch(SubSeq(condlist, 1, Len(condlist) - 1), choicelist, default, i)

selectLast(condlist, choicelist, default, n) ==
    [i \in 1..n |-> LastMatch(condlist, choicelist, default, i)]

select(condlist, choicelist, default, n) ==
    [i \in 1..n |-> FirstMatch(condlist, choicelist, default, i)]

\* series == value
SeriesEq(s, v) == [i \in 1..Len(s) |-> s[i] = v]

\* frame[name] = values
SetColumn(frame, name, values) ==
    [columns |-> frame.columns \cup {name},
     index |-> frame.index,
     data |-> [i \in 1..Len(frame.data) |->
                 [c \in frame.columns \cup {name} |->
                     IF c = name THEN values[i] ELSE frame.data[i][c]]]]

\* frame[cols]
Project(frame, cols) ==
    [columns |-> cols,
     index |-> frame.index,
     data |-> [i \in 1..Len(frame.data) |-> Restrict(frame.data[i], cols)]]

\* ---- DataFrame.corr(): Pearson, NaN where it is undefined
Products(x, y) == [i \in 1..Len(x) |-> x[i] * y[i]]

\* n * sum(xy) - sum(x) * sum(y): n^2 times the covariance
Co(x, y) == Len(x) * Sum(Products(x, y)) - Sum(x) * Sum(y)

Sign(v) == IF v > 0 THEN 1 ELSE IF v < 0 THEN -1 ELSE 0

NaN == [defined |-> FALSE, sign |-> 0, num |-> 0, den |-> 0]

Pearson(x, y) ==
    IF Len(x) = 0 \/ Co(x, x) * Co(y, y) = 0 THEN NaN
    ELSE [defined |-> TRUE, sign |-> Sign(Co(x, y)),
          num |-> Co(x, y) * Co(x, y), den |-> Co(x, x) * Co(y, y)]

\* corr that has no cell to give for a frame without rows
corrNoRows(frame) ==
    IF frame.data = << >> THEN << >>
    ELSE [p \in frame.columns \X frame.columns |->
            Pearson(Column(frame, p[1]), Column(frame, p[2]))]

corr(frame) ==
    [p \in frame.columns \X frame.columns |->
        Pearson(Column(frame, p[1]), Column(frame, p[2]))]

\* ---- streamlit
\* multiselect that hands back its default on every run
multiselectDefault(f, options, default) == Range(default)

\* multiselect called without default=: nothing is selected at first
multiselectNoDefault(f, options, default) ==
    IF f \in widgetSet THEN widget[f] ELSE {}

\* st.sidebar.multiselect: the session's value once the widget exists, the
\* default on its first appearance
multiselect(f, options, default) ==
    IF f \in widgetSet THEN widget[f] ELSE Range(default)

\* px.<kind>(data, ...) handed to st.plotly_chart
Chart(name, kind, data) == [fig |-> name, kind |-> kind, data |-> data]

Init ==
    /\ file \in CsvFiles
    /\ reads = 0
    /\ widgetSet = {}
    /\ widget = NoSelection
    /\ pc = "load"
    /\ df = EmptyFrame
    /\ filters = NoSelection
    /\ filtered_df = EmptyFrame
    /\ charts = << >>
    /\ errline = 0

\* line 10
Load ==
    /\ pc = "load"
    /\ reads' = reads + 1
    /\ IF file.exists
       THEN /\ df' = read_csv(file)
            /\ pc' = "sidebar"
            /\ errline' = 0
       ELSE /\ df' = df
            /\ pc' = "error"
            /\ errline' = 10
    /\ UNCHANGED <<file, widgetSet, widget, filters, filtered_df, charts>>

\* lines 14-18: the first line whose column is missing raises KeyError; a
\* widget that appears for the first time enters the session with the value
\* it returns
Sidebar ==
    /\ pc = "sidebar"
    /\ LET missing == {i \in 1..Len(FilterFields) : FilterFields[i] \notin df.columns}
           stop == IF missing = {} THEN Len(FilterFields) + 1
                   ELSE CHOOSE i \in missing : \A j \in missing : i <= j
           made == {FilterFields[i] : i \in 1..(stop - 1)}
           value == [f \in Fields |->
                        IF f \in made
                        THEN multiselect(f, unique(Column(df, f)), unique(Column(df, f)))
                        ELSE {}]
       IN /\ widgetSet' = widgetSet \cup made
          /\ widget' = [f \in Fields |->
                            IF f \in made \ widgetSet THEN value[f] ELSE widget[f]]
          /\ filters' = value
          /\ IF missing = {}
             THEN pc' = "filter" /\ errline' = 0
             ELSE pc' = "error" /\ errline' = 13 + stop
    /\ UNCHANGED <<file, reads, df, filtered_df, charts>>

\* lines 21-27
Filter ==
    /\ pc = "filter"
    /\ filtered_df' = RowFilter(df, filters)
    /\ pc' = "tab1"
    /\ UNCHANGED <<file, reads, widgetSet, widget, df, filters, charts, errline>>

age_group_chart == GroupByMean(filtered_df, <<"age_group">>, "diabetes")

gender_chart == GroupByMean(filtered_df, <<"gender">>, "diabetes")

\* lines 44-59
Tab1 ==
    /\ pc = "tab1"
    /\ IF "diabetes" \notin filtered_df.columns
       THEN /\ pc' = "error"
            /\ errline' = 48
            /\ charts' = charts
       ELSE /\ pc' = "tab2"
            /\ errline' = 0
            /\ charts' = charts \o <<Chart("fig1", "bar", age_group_chart),
                                     Chart("fig2", "pie", gender_chart)>>
    /\ UNCHANGED <<file, reads, widgetSet, widget, df, filters, filtered_df>>

smoke_chart == GroupByMean(filtered_df, <<"smoking_history">>, "diabetes")

\* lines 62-76
Tab2 ==
    /\ pc = "tab2"
    /\ IF "HbA1c_level" \notin filtered_df.columns
       THEN /\ pc' = "error"
            /\ errline' = 73
            /\ charts' = Append(charts, Chart("fig3", "bar", smoke_chart))
       ELSE /\ pc' = "tab3"
            /\ errline' = 0
            /\ charts' = charts \o
                 <<Chart("fig3", "bar", smoke_chart),
                   Chart("fig4", "box", Project(filtered_df, {"diabetes", "HbA1c_level"}))>>
    /\ UNCHANGED <<file, reads, widgetSet, widget, df, filters, filtered_df>>

conditions ==
    <<MaskAnd(SeriesEq(Column(filtered_df, "hypertension"), 1),
              SeriesEq(Column(filtered_df, "heart_disease"), 1)),
      SeriesEq(Column(filtered_df, "hypertension"), 1),
      SeriesEq(Column(filtered_df, "heart_disease"), 1)>>

choices == <<"Both", "Hypertension Only", "Heart Disease Only">>

Labelled ==
    SetColumn(filtered_df, "comorbidity",
              select(conditions, choices, "None", Len(filtered_df.data)))

\* Tab 3 with filtered_df a view of df: the assignment writes through
Tab3Alias ==
    /\ pc = "tab3"
    /\ filtered_df' = Labelled
    /\ df' = [df EXCEPT !.columns = @ \cup {"comorbidity"},
                        !.data = [i \in 1..Len(df.data) |->
                                    [c \in df.columns \cup {"comorbidity"} |->
                                        IF c # "comorbidity" THEN df.data[i][c]
                                        ELSE IF \E j \in 1..Len(Labelled.index) :
                                                    Labelled.index[j] = df.index[i]
                                        THEN Labelled.data[CHOOSE j \in 1..Len(Labelled.index) :
                                                    Labelled.index[j] = df.index[i]][c]
                                        ELSE "nan"]]]
    /\ charts' = Append(charts,
            Chart("fig5", "bar", GroupByMean(Labelled, <<"comorbidity">>, "diabetes")))
    /\ pc' = "tab4"
    /\ UNCHANGED <<file, reads, widgetSet, widget, filters, errline>>

\* lines 79-92
Tab3 ==
    /\ pc = "tab3"
    /\ filtered_df' = Labelled
    /\ charts' = Append(charts,
            Chart("fig5", "bar", GroupByMean(Labelled, <<"comorbidity">>, "diabetes")))
    /\ pc' = "tab4"
    /\ UNCHANGED <<file, reads, widgetSet, widget, df, filters, errline>>

\* lines 95-108
Tab4 ==
    /\ pc = "tab4"
    /\ LET fig6 == Chart("fig6", "violin", Project(filtered_df, {"diabetes", "bmi"}))
           fig7 == Chart("fig7", "box", Project(filtered_df, {"diabetes", "blood_glucose_level"}))
       IN IF "bmi" \notin filtered_df.columns
          THEN pc' = "error" /\ errline' = 99 /\ charts' = charts
          ELSE IF "blood_glucose_level" \notin filtered_df.columns
          THEN pc' = "error" /\ errline' = 105 /\ charts' = Append(charts, fig6)
          ELSE pc' = "tab5" /\ errline' = 0 /\ charts' = charts \o <<fig6, fig7>>
    /\ UNCHANGED <<file, reads, widgetSet, widget, df, filters, filtered_df>>

heatmap_data == GroupByMean(filtered_df, <<"gender", "age_group">>, "diabetes")

corr_matrix == corr(Project(filtered_df, Range(numeric_cols)))

heatmap_df == GroupByMean(filtered_df, <<"age_group", "smoking_history">>, "diabetes")

\* lines 111-132, and the footer
Tab5 ==
    /\ pc = "tab5"
    /\ LET fig8 == Chart("fig8", "density_heatmap", heatmap_data)
       IN IF ~(Range(numeric_cols) \subseteq filtered_df.columns)
          THEN pc' = "error" /\ errline' = 121 /\ charts' = Append(charts, fig8)
          ELSE /\ pc' = "done"
               /\ errline' = 0
               /\ charts' = charts \o <<fig8, Chart("fig9", "imshow", corr_matrix),
                                        Chart("fig10", "density_heatmap", heatmap_df)>>
    /\ UNCHANGED <<file, reads, widgetSet, widget, df, filters, filtered_df>>

\* the script starts over with an empty namespace and an empty page
Rerun ==
    /\ pc' = "load"
    /\ df' = EmptyFrame
    /\ filters' = NoSelection
    /\ filtered_df' = EmptyFrame
    /\ charts' = << >>
    /\ errline' = 0

\* the user changes one sidebar widget: the session keeps the new value and
\* the script runs again
SelectionChange ==
    /\ pc # "load"
    /\ reads < MaxReads
    /\ \E f \in widgetSet :
         \E S \in SUBSET Range(unique(Column(df, f))) :
            /\ S # widget[f]
            /\ widget' = [widget EXCEPT ![f] = S]
    /\ Rerun
    /\ UNCHANGED <<file, reads, widgetSet>>

Next ==
    \/ Load
    \/ Sidebar
    \/ Filter
    \/ Tab1
    \/ Tab2
    \/ Tab3
    \/ Tab4
    \/ Tab5
    \/ SelectionChange

Spec == Init /\ [][Next]_vars

\* ------------------------------------------------------------------ claims
\* the row filter has run in this execution of the script
Filtered ==
    \/ pc \in {"tab1", "tab2", "tab3", "tab4", "tab5", "done"}
    \/ pc = "error" /\ errline >= 48

\* the comorbidity column has been added in this execution
LabelledNow ==
    \/ pc \in {"tab4", "tab5", "done"}
    \/ pc = "error" /\ errline >= 99

ValidFile == file.exists /\ file.columns = RequiredColumns

DropColumn(frame, c) == Project(frame, frame.columns \ {c})

\* row i of the loaded frame passes all five membership tests
Passes(i) == \A f \in Fields : df.data[i][f] \in filters[f]

ChartsNamed(name) == {k \in 1..Len(charts) : charts[k].fig = name}

\* C1: once the filter has run, the filtered frame holds exactly the rows of
\* the loaded frame whose value in each of the five fields is in that field's
\* selection: every kept row is such a row, unchanged and under its own
\* label, and every such row is kept exactly once.
C1_FilterExact ==
    Filtered =>
        /\ filters = widget
        /\ \A j \in 1..Len(filtered_df.data) :
              LET i == filtered_df.index[j] + 1
              IN /\ i \in 1..Len(df.data)
                 /\ Restrict(filtered_df.data[j], df.columns) = df.data[i]
                 /\ Passes(i)
        /\ \A i \in 1..Len(df.data) :
              Passes(i) =>
                  Cardinality({j \in 1..Len(filtered_df.index) :
                                  filtered_df.index[j] = i - 1}) = 1

C1_Witness ==
    /\ Filtered
    /\ reads >= 2
    /\ Len(filtered_df.data) > 0
    /\ Len(filtered_df.data) < Len(df.data)
    /\ \E i \in 1..Len(df.data) :
          /\ ~Passes(i)
          /\ \E f \in Fields : df.data[i][f] \in filters[f]

Labels == {"Both", "Hypertension Only", "Heart Disease Only", "None"}

\* C2: once Tab 3 has run, every filtered row carries exactly one of the
\* four labels, the one of the first predicate it satisfies in the order
\* both, hypertension, heart disease, else "None"; the i-th label is that
\* of the i-th row, and a row with both conditions is labelled "Both".
C2_Comorbidity ==
    LabelledNow =>
        /\ "comorbidity" \in filtered_df.columns
        /\ \A j \in 1..Len(filtered_df.data) :
              LET r == filtered_df.data[j]
              IN /\ r["comorbidity"] \in Labels
                 /\ r["comorbidity"] =
                       IF r["hypertension"] = 1 /\ r["heart_disease"] = 1 THEN "Both"
                       ELSE IF r["hypertension"] = 1 THEN "Hypertension Only"
                       ELSE IF r["heart_disease"] = 1 THEN "Heart Disease Only"
                       ELSE "None"
                 /\ (r["hypertension"] = 1 /\ r["heart_disease"] = 1
                        => r["comorbidity"] = "Both")

C2_Witness ==
    /\ pc = "done"
    /\ \E j \in 1..Len(filtered_df.data) : filtered_df.data[j]["comorbidity"] = "Both"
    /\ \E j \in 1..Len(filtered_df.data) : filtered_df.data[j]["comorbidity"] # "Both"

\* the figures that show a mean by one field, and that field
MeanByFieldFig ==
    [fig1 |-> "age_group", fig2 |-> "gender", fig3 |-> "smoking_history",
     fig5 |-> "comorbidity"]

\* C3: in each table of means by one field that has been charted, every
\* value is the share of diabetes = 1 rows among the filtered rows of its
\* group and lies between 0 and 1, every field value some filtered row
\* carries has exactly one table row, and a table row exists only for a
\* value some filtered row carries.
C3_MeanByField ==
    \A k \in 1..Len(charts) :
        charts[k].fig \in DOMAIN MeanByFieldFig =>
            LET fld == MeanByFieldFig[charts[k].fig]
                t == charts[k].data
                rows == 1..Len(filtered_df.data)
                In(v) == {i \in rows : filtered_df.data[i][fld] = v}
            IN /\ \A r \in 1..Len(t) :
                     /\ In(t[r][fld]) # {}
                     /\ t[r]["diabetes"].den = Cardinality(In(t[r][fld]))
                     /\ t[r]["diabetes"].num =
                           Cardinality({i \in In(t[r][fld]) :
                                           filtered_df.data[i]["diabetes"] = 1})
                     /\ t[r]["diabetes"].den > 0
                     /\ 0 <= t[r]["diabetes"].num
                     /\ t[r]["diabetes"].num <= t[r]["diabetes"].den
               /\ \A i \in rows :
                     Cardinality({r \in 1..Len(t) :
                                     t[r][fld] = filtered_df.data[i][fld]}) = 1

C3_Witness ==
    /\ pc = "done"
    /\ \E k \in ChartsNamed("fig2") :
          /\ \E r \in 1..Len(charts[k].data) :
                /\ charts[k].data[r]["diabetes"].num > 0
                /\ charts[k].data[r]["diabetes"].num < charts[k].data[r]["diabetes"].den
          /\ \E i \in 1..Len(df.data) :
                \A r \in 1..Len(charts[k].data) :
                    charts[k].data[r]["gender"] # df.data[i]["gender"]

\* C4: with an empty selection in any one of the five fields the filter
\* yields a frame without rows, whatever the data and the other four
\* selections, and it yields it as a result: no line of the filter raises.
C4_EmptySelection ==
    /\ Filtered /\ (\E f \in Fields : filters[f] = {}) =>
          /\ filtered_df.data = << >>
          /\ filtered_df.index = << >>
          /\ df.columns \subseteq filtered_df.columns
    /\ pc = "error" => errline \notin 21..27

C4_Witness ==
    /\ Filtered
    /\ Len(df.data) >= 2
    /\ \E f \in Fields : filters[f] = {}
    /\ \E f \in Fields : filters[f] # {}
    /\ filtered_df.data = << >>

FigNames == <<"fig1", "fig2", "fig3", "fig4", "fig5", "fig6", "fig7", "fig8", "fig9", "fig10">>

GroupFigs == {"fig1", "fig2", "fig3", "fig5", "fig8", "fig10"}

\* a step of the script itself
ScriptStep == Load \/ Sidebar \/ Filter \/ Tab1 \/ Tab2 \/ Tab3 \/ Tab4 \/ Tab5

\* C5: when the filter of a complete dataset leaves no row, the run does
\* not raise and goes on to its end: each group-by table charted is empty,
\* the correlation matrix has all its 4 x 4 cells and each is undefined,
\* the labelling adds its column, and the finished run has handed all ten
\* figures to the renderer in order.
C5_EmptyResult ==
    Filtered /\ df.columns = RequiredColumns /\ filtered_df.data = << >> =>
        /\ pc # "error"
        /\ pc # "done" => ENABLED ScriptStep
        /\ \A k \in 1..Len(charts) :
              /\ charts[k].fig = FigNames[k]
              /\ charts[k].fig \in GroupFigs => charts[k].data = << >>
              /\ charts[k].fig \in {"fig4", "fig6", "fig7"} => charts[k].data.data = << >>
              /\ charts[k].fig = "fig9" =>
                    /\ DOMAIN charts[k].data = Range(numeric_cols) \X Range(numeric_cols)
                    /\ \A p \in DOMAIN charts[k].data : ~charts[k].data[p].defined
        /\ LabelledNow => "comorbidity" \in filtered_df.columns
        /\ pc = "done" => Len(charts) = 10

C5_Witness ==
    /\ pc = "done"
    /\ Len(df.data) >= 2
    /\ filtered_df.data = << >>
    /\ Len(charts) = 10
    /\ ChartsNamed("fig9") # {}

\* C6: the dataset is read once for the whole session, however many times
\* the selection changes.
C6_ReadOnce == reads <= 1

\* C7: with the file absent or a required column missing, the run fails
\* before any figure has been handed to the renderer.
C7_FatalBeforeAnyChart == ~ValidFile => charts = << >>

\* what one execution from the file and the session's selection computes
FreshFiltered == RowFilter(read_csv(file), widget)

FreshLabelled(ff) ==
    SetColumn(ff, "comorbidity",
        select(<<MaskAnd(SeriesEq(Column(ff, "hypertension"), 1),
                         SeriesEq(Column(ff, "heart_disease"), 1)),
                 SeriesEq(Column(ff, "hypertension"), 1),
                 SeriesEq(Column(ff, "heart_disease"), 1)>>,
               <<"Both", "Hypertension Only", "Heart Disease Only">>, "None",
               Len(ff.data)))

\* the data of one figure, from the fresh filtered frame ff and the fresh
\* labelled frame fl
FreshData(name, ff, fl) ==
    CASE name = "fig1" -> GroupByMean(ff, <<"age_group">>, "diabetes")
      [] name = "fig2" -> GroupByMean(ff, <<"gender">>, "diabetes")
      [] name = "fig3" -> GroupByMean(ff, <<"smoking_history">>, "diabetes")
      [] name = "fig4" -> Project(ff, {"diabetes", "HbA1c_level"})
      [] name = "fig5" -> GroupByMean(fl, <<"comorbidity">>, "diabetes")
      [] name = "fig6" -> Project(fl, {"diabetes", "bmi"})
      [] name = "fig7" -> Project(fl, {"diabetes", "blood_glucose_level"})
      [] name = "fig8" -> GroupByMean(fl, <<"gender", "age_group">>, "diabetes")
      [] name = "fig9" -> corr(Project(fl, Range(numeric_cols)))
      [] name = "fig10" -> GroupByMean(fl, <<"age_group", "smoking_history">>, "diabetes")

FigKinds ==
    <<"bar", "pie", "bar", "box", "bar", "violin", "box", "density_heatmap", "imshow",
      "density_heatmap">>

\* C8: whatever selections came before, the filtered frame and the figures
\* of the current run are those a first run from the file and the current
\* selection alone gives: the figures so far are the first ones of that
\* run, and the finished run has all ten.
C8_HistoryIndependent ==
    ValidFile =>
        LET ff == FreshFiltered
            fl == FreshLabelled(ff)
        IN /\ Filtered => filtered_df = IF LabelledNow THEN fl ELSE ff
           /\ Len(charts) <= Len(FigNames)
           /\ \A k \in 1..Len(charts) :
                 /\ charts[k].fig = FigNames[k]
                 /\ charts[k].kind = FigKinds[k]
                 /\ charts[k].data = FreshData(FigNames[k], ff, fl)
           /\ pc = "done" => Len(charts) = Len(FigNames)

C8_Witness ==
    /\ pc = "done"
    /\ reads >= 2
    /\ Len(charts) = 10
    /\ Len(filtered_df.data) > 0
    /\ Len(filtered_df.data) < Len(df.data)

DistinctValues(f) == {df.data[i][f] : i \in 1..Len(df.data)}

\* C9: in the first run, before the selection has been changed, each
\* widget's selection is the set of all values its field takes in the
\* data, and the filter keeps every row of the data.
C9_DefaultIdentity ==
    reads = 1 /\ pc # "load" =>
        /\ \A f \in widgetSet :
              /\ widget[f] = DistinctValues(f)
              /\ filters[f] = DistinctValues(f)
        /\ pc \notin {"load", "sidebar", "error"} => widgetSet = Fields
        /\ Filtered => DropColumn(filtered_df, "comorbidity") = df

C9_Witness ==
    /\ reads = 1
    /\ pc = "done"
    /\ Len(df.data) >= 2
    /\ \E f \in Fields : Cardinality(filters[f]) >= 2

\* C10: the step that adds the comorbidity label leaves the loaded frame
\* as it is and without that column, and leaves the filtered frame with the
\* same rows, labels and values in every other column; the figures of
\* Tabs 4 and 5 are computed over the rows and values the filter gave.
C10_LabelFrame ==
    /\ [][pc = "tab3" /\ pc' = "tab4" =>
            /\ df' = df
            /\ "comorbidity" \notin df'.columns
            /\ filtered_df'.index = filtered_df.index
            /\ DropColumn(filtered_df', "comorbidity") = filtered_df]_vars
    /\ [](LabelledNow /\ df.columns = RequiredColumns =>
            LET before == RowFilter(df, filters)
            IN /\ df = read_csv(file)
               /\ DropColumn(filtered_df, "comorbidity") = before
               /\ \A k \in ChartsNamed("fig6") :
                     charts[k].data = Project(before, {"diabetes", "bmi"})
               /\ \A k \in ChartsNamed("fig7") :
                     charts[k].data = Project(before, {"diabetes", "blood_glucose_level"})
               /\ \A k \in ChartsNamed("fig8") :
                     charts[k].data = GroupByMean(before, <<"gender", "age_group">>, "diabetes")
               /\ \A k \in ChartsNamed("fig9") :
                     charts[k].data = corr(Project(before, Range(numeric_cols)))
               /\ \A k \in ChartsNamed("fig10") :
                     charts[k].data =
                        GroupByMean(before, <<"age_group", "smoking_history">>, "diabetes"))

C10_Witness ==
    /\ pc = "done"
    /\ Len(filtered_df.data) >= 2
    /\ "comorbidity" \in filtered_df.columns
    /\ \E j \in 1..Len(filtered_df.data) : filtered_df.data[j]["comorbidity"] # "None"
====
